---------------------------- MODULE Spec2Model ----------------------------
(***************************************************************************)
(* Model of the Jack tokenizer of hack_compiler:                           *)
(*   - utils.rs: the normalization passes of clean_input                   *)
(*   - tokenizer.rs: JackTokenizer::into_tokens (the scan loop) and the     *)
(*     token cursor (advance, has_more_tokens, the typed accessors)        *)
(*   - tokens/mod.rs: the Token, Keyword and Symbol vocabularies and the   *)
(*     serialization of a token (start_xml, to_xml, end_xml; main.rs:48)   *)
(* A character is a one-character string, a text a sequence of characters. *)
(***************************************************************************)
EXTENDS Integers, Sequences, FiniteSets, TLC

VARIABLES
    \* JackTokenizer (tokenizer.rs:13-22)
    self_tokens,            \* tokens: Vec<Rc<Token>>
    current_token,          \* Option<Rc<Token>>: <<>> is None, <<t>> is Some(t)
    current_token_index,    \* usize
    next_token,             \* Option<Rc<Token>>
    calls,                  \* number of advance() calls made so far
    ret,                    \* the last call on the cursor and its outcome
    \* locals of into_tokens (tokenizer.rs:65-109)
    chars,                  \* input.chars().collect()
    i,                      \* the read index
    acc,                    \* the pending accumulator
    tokens,                 \* the tokens pushed so far
    accPos,                 \* indices of the characters held in acc
    spans,                  \* per pushed token, the indices of its characters
    iters,                  \* loop iterations executed so far
    pc,                     \* "scan" inside the while loop, "done" after it
    \* clean_input (tokenizer.rs:47-53)
    raw,                    \* the text handed to the first clean_input call
    text,                   \* the text between two passes
    stage,                  \* the pass that runs next
    round,                  \* 1: first clean_input call, 2: clean_input of its output
    first,                  \* the output of the first clean_input call
    \* main (main.rs:43-51)
    token,                  \* the token being serialized
    unit,                   \* start_xml + " " + to_xml + " " + end_xml
    xpc                     \* "token" before the unit is built, "serialized" after

cursorVars == <<self_tokens, current_token, current_token_index, next_token, calls, ret>>
scanVars == <<chars, i, acc, tokens, accPos, spans, iters, pc>>
cleanVars == <<raw, text, stage, round, first>>
xmlVars == <<token, unit, xpc>>
vars == <<cursorVars, scanVars, cleanVars, xmlVars>>

----------------------------------------------------------------------------
(* Bounds of the model *)

MaxTokens == 3
MaxCalls == 5
MaxRaw == 3
MaxWords == 3
MaxSpin == 2
MaxStr == 2

----------------------------------------------------------------------------
(* Generic helpers on sequences *)

RECURSIVE Concat(_)
Concat(ss) == IF ss = <<>> THEN <<>> ELSE Head(ss) \o Concat(Tail(ss))

SeqsUpTo(S, n) == UNION {[1..k -> S] : k \in 0..n}

Min(S) == CHOOSE m \in S : \A o \in S : m <= o

----------------------------------------------------------------------------
(* tokens/mod.rs: the vocabularies *)

Keywords ==
    { <<"c","l","a","s","s">>, <<"c","o","n","s","t","r","u","c","t","o","r">>,
      <<"f","u","n","c","t","i","o","n">>, <<"m","e","t","h","o","d">>,
      <<"f","i","e","l","d">>, <<"s","t","a","t","i","c">>, <<"v","a","r">>,
      <<"i","n","t">>, <<"c","h","a","r">>, <<"b","o","o","l","e","a","n">>,
      <<"v","o","i","d">>, <<"t","r","u","e">>, <<"f","a","l","s","e">>,
      <<"n","u","l","l">>, <<"t","h","i","s">>, <<"l","e","t">>, <<"d","o">>,
      <<"i","f">>, <<"e","l","s","e">>, <<"w","h","i","l","e">>,
      <<"r","e","t","u","r","n">> }

is_keyword(s) == s \in Keywords

SymbolChars ==
    {"{", "}", "(", ")", "[", "]", ".", ",", ";", "+", "-", "*", "/", "&",
     "|", "<", ">", "=", "~"}

is_symbol(c) == c \in SymbolChars

Digits == {"0", "1", "2", "3", "4", "5", "6", "7", "8", "9"}

DigitVal(c) ==
    CASE c = "0" -> 0 [] c = "1" -> 1 [] c = "2" -> 2 [] c = "3" -> 3
      [] c = "4" -> 4 [] c = "5" -> 5 [] c = "6" -> 6 [] c = "7" -> 7
      [] c = "8" -> 8 [] c = "9" -> 9

\* Token: kind is the variant; text the payload of Keyword (its to_str),
\* Symbol (its character), Identifier and StringConst; num that of IntConst.
Keyword(s) == [kind |-> "Keyword", text |-> s, num |-> 0]
Symbol(c) == [kind |-> "Symbol", text |-> <<c>>, num |-> 0]
Identifier(s) == [kind |-> "Identifier", text |-> s, num |-> 0]
IntConst(u) == [kind |-> "IntConst", text |-> <<>>, num |-> u]
StringConst(s) == [kind |-> "StringConst", text |-> s, num |-> 0]

----------------------------------------------------------------------------
(* utils.rs and JackTokenizer::clean_input: normalization *)

\* first index p >= from with pat at s[p .. p+Len(pat)-1] (1-based), 0 if none
RECURSIVE IndexOf(_, _, _)
IndexOf(s, pat, from) ==
    IF from + Len(pat) - 1 > Len(s) THEN 0
    ELSE IF SubSeq(s, from, from + Len(pat) - 1) = pat THEN from
    ELSE IndexOf(s, pat, from + 1)

\* Regex::replace_all(open [\w\W]*? \*/, ""): the leftmost opener that has a
\* closer after it, up to the nearest such closer, again on the rest
RECURSIVE remove_block(_, _)
remove_block(s, open) ==
    LET p == IndexOf(s, open, 1)
        e == IF p = 0 THEN 0 ELSE IndexOf(s, <<"*", "/">>, p + Len(open))
    IN  IF e = 0 THEN s
        ELSE SubSeq(s, 1, p - 1) \o remove_block(SubSeq(s, e + 2, Len(s)), open)

\* Regex::replace_all(//.*, ""): '.' matches every character but \n
RECURSIVE remove_inline(_)
remove_inline(s) ==
    LET p == IndexOf(s, <<"/", "/">>, 1)
        n == IF p = 0 THEN 0 ELSE IndexOf(s, <<"\n">>, p + 2)
        e == IF n = 0 THEN Len(s) + 1 ELSE n
    IN  IF p = 0 THEN s
        ELSE SubSeq(s, 1, p - 1) \o remove_inline(SubSeq(s, e, Len(s)))

remove_comments(s) ==
    remove_inline(remove_block(remove_block(s, <<"/", "*", "*">>), <<"/", "*">>))

replace_with_single_space(s, c) ==
    [k \in 1..Len(s) |-> IF s[k] = c THEN " " ELSE s[k]]

replace_line_breaks_with_single_space(s) == replace_with_single_space(s, "\n")
replace_tabs_with_single_space(s) == replace_with_single_space(s, "\t")
replace_carriage_returns_with_single_space(s) == replace_with_single_space(s, "\r")

\* Regex::replace_all(" +", " ")
RECURSIVE collapse_spaces(_)
collapse_spaces(s) ==
    IF s = <<>> THEN <<>>
    ELSE IF Head(s) = " " /\ Len(s) > 1 /\ s[2] = " " THEN collapse_spaces(Tail(s))
    ELSE <<Head(s)>> \o collapse_spaces(Tail(s))

\* char::is_whitespace, over the characters of the model: form feed is
\* White_Space, and no pass of clean_input replaces it
Whitespace == {" ", "\n", "\t", "\r", "\f"}

\* str::trim
RECURSIVE trim(_)
trim(s) ==
    IF s = <<>> THEN <<>>
    ELSE IF Head(s) \in Whitespace THEN trim(Tail(s))
    ELSE IF s[Len(s)] \in Whitespace THEN trim(SubSeq(s, 1, Len(s) - 1))
    ELSE s

\* a collapse that forgets to trim
replace_multi_spaces_untrimmed(s) == collapse_spaces(s)

replace_multi_spaces_with_single_space(s) == trim(collapse_spaces(s))

clean_input(s) ==
    replace_multi_spaces_with_single_space(
        replace_carriage_returns_with_single_space(
            replace_tabs_with_single_space(
                replace_line_breaks_with_single_space(remove_comments(s)))))

\* The raw texts clean_input is run on: up to MaxRaw pieces
CleanLexemes ==
    { <<"/">>, <<"*">>, <<" ">>, <<"a">>, <<"\n">>, <<"\t">>, <<"\r">>, <<"\f">>,
      <<"/", "*", "*">>, <<"*", "/">>, <<"/", "*", " ", "*", "/">>, <<"*", "*", "/">> }

RawInputs == { Concat(ws) : ws \in SeqsUpTo(CleanLexemes, MaxRaw) }

\* one call of clean_input runs the five passes in order; the model then
\* calls clean_input once more on the output of the first call
Pass(name, next, out) ==
    /\ stage = name
    /\ text' = out
    /\ stage' = next
    /\ UNCHANGED <<raw, round, first, cursorVars, scanVars, xmlVars>>

RemoveComments == Pass("remove_comments", "line_breaks", remove_comments(text))

ReplaceLineBreaks ==
    Pass("line_breaks", "tabs", replace_line_breaks_with_single_space(text))

ReplaceTabs == Pass("tabs", "carriage", replace_tabs_with_single_space(text))

ReplaceCarriageReturns ==
    Pass("carriage", "multi_spaces", replace_carriage_returns_with_single_space(text))

ReplaceMultiSpaces ==
    /\ stage = "multi_spaces"
    /\ text' = replace_multi_spaces_with_single_space(text)
    /\ IF round = 1
       THEN /\ first' = text'
            /\ round' = 2
            /\ stage' = "remove_comments"
       ELSE /\ stage' = "done"
            /\ UNCHANGED <<first, round>>
    /\ UNCHANGED <<raw, cursorVars, scanVars, xmlVars>>

----------------------------------------------------------------------------
(* JackTokenizer::into_tokens: the scan loop *)

U16Max == 65535
Err == -1

Letters ==
    {"a", "b", "c", "d", "e", "f", "g", "h", "i", "j", "k", "l", "m", "n", "o",
     "p", "q", "r", "s", "t", "u", "v", "w", "x", "y", "z", "A", "S", "Z"}

\* alphabetic characters outside ASCII (two bytes in UTF-8)
NonAscii == {"é"}

\* char::is_alphanumeric
is_alphanumeric(c) == c \in Letters \cup Digits \cup NonAscii

\* char::len_utf8
len_utf8(c) == IF c \in NonAscii THEN 2 ELSE 1

\* String::len: the length in bytes
RECURSIVE byte_len(_)
byte_len(s) == IF s = <<>> THEN 0 ELSE len_utf8(Head(s)) + byte_len(Tail(s))

\* str::parse::<u16>: decimal digits only, every step checked against u16::MAX
RECURSIVE parse_digits(_, _)
parse_digits(s, v) ==
    IF s = <<>> THEN v
    ELSE IF Head(s) \notin Digits THEN Err
    ELSE LET n == v * 10 + DigitVal(Head(s))
         IN  IF n > U16Max THEN Err ELSE parse_digits(Tail(s), n)

parse_u16(s) == IF s = <<>> THEN Err ELSE parse_digits(s, 0)

\* a classification that tries the integer before the keyword and never
\* the keyword
close_acc_no_keyword(a) ==
    IF parse_u16(a) # Err THEN IntConst(parse_u16(a)) ELSE Identifier(a)

\* the token a non-empty accumulator is closed into (tokenizer.rs:78-84)
close_acc(a) ==
    IF is_keyword(a) THEN Keyword(a)
    ELSE IF parse_u16(a) # Err THEN IntConst(parse_u16(a))
    ELSE Identifier(a)

\* chars[from ..].iter().take_while(|c| **c != '"'), from a 0-based index
RECURSIVE take_while_not_quote(_, _)
take_while_not_quote(cs, from) ==
    IF from >= Len(cs) \/ cs[from + 1] = "\"" THEN <<>>
    ELSE <<cs[from + 1]>> \o take_while_not_quote(cs, from + 1)

Range(f) == { f[k] : k \in DOMAIN f }

\* The texts into_tokens is run on: JackTokenizer::new hands it the output
\* of clean_input
ScanLexemes ==
    { <<"l", "e", "t">>, <<"x">>, <<"_">>, <<"0">>,
      <<"3", "2", "7", "6", "7">>, <<"6", "5", "5", "3", "5">>,
      <<"6", "5", "5", "3", "6">>, <<" ">>, <<"=">>, <<"\"">>,
      <<"\"", "a", " ", "b", "\"">>, <<"!">>, <<"é">>, <<"\"", "é", "\"">> }

ScanInputs == { clean_input(Concat(ws)) : ws \in SeqsUpTo(ScanLexemes, MaxWords) }

\* one iteration of the while loop (tokenizer.rs:72-106): three ifs in a row
\* on the character c read at the top of the iteration
ScanIter ==
    /\ pc = "scan"
    /\ i < Len(chars)
    /\ iters < Len(chars) + MaxSpin
    /\ LET c == chars[i + 1]
           sym == is_symbol(c)
           term == c = " " \/ sym
           closing == term /\ acc # <<>>
           t1 == IF term
                 THEN tokens \o (IF closing THEN <<close_acc(acc)>> ELSE <<>>)
                             \o (IF sym THEN <<Symbol(c)>> ELSE <<>>)
                 ELSE tokens
           s1 == IF term
                 THEN spans \o (IF closing THEN <<Range(accPos)>> ELSE <<>>)
                            \o (IF sym THEN <<{i}>> ELSE <<>>)
                 ELSE spans
           acc1 == IF term THEN <<>> ELSE acc
           pos1 == IF term THEN <<>> ELSE accPos
           i1 == IF term THEN i + 1 ELSE i
           quote == c = "\""
           string_constant == IF quote THEN take_while_not_quote(chars, i1 + 1) ELSE <<>>
           t2 == IF quote THEN Append(t1, StringConst(string_constant)) ELSE t1
           s2 == IF quote
                 THEN Append(s1, {k \in i1 .. i1 + Len(string_constant) + 1 :
                                      k < Len(chars)})
                 ELSE s1
           i2 == IF quote THEN i1 + byte_len(string_constant) + 2 ELSE i1
           alnum == is_alphanumeric(c) \/ c = "_"
       IN  /\ tokens' = t2
           /\ spans' = s2
           /\ acc' = IF alnum THEN Append(acc1, c) ELSE acc1
           /\ accPos' = IF alnum THEN Append(pos1, i2) ELSE pos1
           /\ i' = IF alnum THEN i2 + 1 ELSE i2
    /\ iters' = iters + 1
    /\ UNCHANGED <<chars, pc, cursorVars, cleanVars, xmlVars>>

\* the loop condition fails: into_tokens returns tokens
ScanReturn ==
    /\ pc = "scan"
    /\ i >= Len(chars)
    /\ pc' = "done"
    /\ UNCHANGED <<chars, i, acc, tokens, accPos, spans, iters, cursorVars, cleanVars, xmlVars>>

----------------------------------------------------------------------------
(* tokenizer.rs: the token cursor *)

None == <<>>
Some(t) == <<t>>

\* Vec::get(k).cloned(), k a 0-based index
Get(v, k) == IF k < Len(v) THEN Some(v[k + 1]) ELSE None

\* The token sequences a cursor is built over
CursorTokens ==
    { Keyword(<<"l","e","t">>), Symbol("="), Identifier(<<"x">>), IntConst(5),
      StringConst(<<"x">>) }

NoCall == [call |-> "none", panic |-> FALSE, kind |-> "", text |-> <<>>, num |-> 0]

Returned(name, t) ==
    [call |-> name, panic |-> FALSE, kind |-> t.kind, text |-> t.text, num |-> t.num]

Panicked(name) == [call |-> name, panic |-> TRUE, kind |-> "", text |-> <<>>, num |-> 0]

\* JackTokenizer::new, after into_tokens
InitCursorFields(ts) ==
    /\ self_tokens = ts
    /\ current_token = Get(ts, 0)
    /\ next_token = Get(ts, 1)
    /\ current_token_index = 0

has_more_tokens == current_token # None

\* a cursor whose lookahead is recomputed from the wrong index
advance_next_off_by_one == Get(self_tokens, current_token_index + 1)

advance_next == Get(self_tokens, current_token_index + 2)

advance ==
    /\ ~ret.panic
    /\ calls < MaxCalls
    /\ current_token' = next_token
    /\ next_token' = advance_next
    /\ current_token_index' = current_token_index + 1
    /\ calls' = calls + 1
    /\ ret' = [NoCall EXCEPT !.call = "advance"]
    /\ UNCHANGED <<self_tokens, scanVars, cleanVars, xmlVars>>

\* current_token(): expect("no current token")
current_token_call(name) ==
    IF current_token = None THEN Panicked(name) ELSE Returned(name, current_token[1])

\* an accessor that answers a mismatch with a default payload
accessor_sentinel(name, variant) ==
    IF current_token # None /\ current_token[1].kind = variant
    THEN Returned(name, current_token[1])
    ELSE Returned(name, [kind |-> variant, text |-> <<>>, num |-> 0])

\* a typed accessor: match &*self.current_token() { Variant(p) => p, _ => panic!() }
accessor(name, variant) ==
    LET r == current_token_call(name)
    IN  IF r.panic THEN r
        ELSE IF r.kind = variant THEN r
        ELSE Panicked(name)

Call(r) ==
    /\ ~ret.panic
    /\ ret' = r
    /\ UNCHANGED <<self_tokens, current_token, current_token_index, next_token, calls>>
    /\ UNCHANGED <<scanVars, cleanVars, xmlVars>>

get_current_token == Call(current_token_call("current_token"))
keyword == Call(accessor("keyword", "Keyword"))
symbol == Call(accessor("symbol", "Symbol"))
identifier == Call(accessor("identifier", "Identifier"))
int_val == Call(accessor("int_val", "IntConst"))
string_val == Call(accessor("string_val", "StringConst"))

ScanIdle ==
    /\ chars = <<>> /\ i = 0 /\ acc = <<>> /\ tokens = <<>>
    /\ accPos = <<>> /\ spans = <<>> /\ iters = 0 /\ pc = "idle"

CleanIdle ==
    /\ raw = <<>> /\ text = <<>> /\ stage = "idle" /\ round = 0 /\ first = <<>>

XmlIdle ==
    /\ token = IntConst(0) /\ unit = <<>> /\ xpc = "idle"

InitCursor ==
    /\ XmlIdle
    /\ \E ts \in SeqsUpTo(CursorTokens, MaxTokens) : InitCursorFields(ts)
    /\ calls = 0
    /\ ret = NoCall
    /\ ScanIdle
    /\ CleanIdle

CursorIdle ==
    /\ InitCursorFields(<<>>)
    /\ calls = 0
    /\ ret = NoCall

InitClean ==
    /\ XmlIdle
    /\ raw \in RawInputs
    /\ text = raw
    /\ stage = "remove_comments"
    /\ round = 1
    /\ first = <<>>
    /\ ScanIdle
    /\ CursorIdle

NextClean ==
    \/ RemoveComments
    \/ ReplaceLineBreaks
    \/ ReplaceTabs
    \/ ReplaceCarriageReturns
    \/ ReplaceMultiSpaces

SpecClean == InitClean /\ [][NextClean]_vars

InitScan ==
    /\ XmlIdle
    /\ chars \in ScanInputs
    /\ i = 0
    /\ acc = <<>>
    /\ tokens = <<>>
    /\ accPos = <<>>
    /\ spans = <<>>
    /\ iters = 0
    /\ pc = "scan"
    /\ CleanIdle
    /\ CursorIdle

NextScan ==
    \/ ScanIter
    \/ ScanReturn

SpecScan == InitScan /\ [][NextScan]_vars

NextCursor ==
    \/ advance
    \/ get_current_token
    \/ keyword
    \/ symbol
    \/ identifier
    \/ int_val
    \/ string_val

SpecCursor == InitCursor /\ [][NextCursor]_vars

----------------------------------------------------------------------------
(* tokens/mod.rs and main.rs: serialization of a token *)

\* the tag name start_xml and end_xml choose for a variant
TagName(kind) ==
    CASE kind = "Keyword" -> <<"k", "e", "y", "w", "o", "r", "d">>
      [] kind = "Symbol" -> <<"s", "y", "m", "b", "o", "l">>
      [] kind = "Identifier" -> <<"i", "d", "e", "n", "t", "i", "f", "i", "e", "r">>
      [] kind = "IntConst" ->
            <<"i", "n", "t", "e", "g", "e", "r", "C", "o", "n", "s", "t", "a", "n", "t">>
      [] kind = "StringConst" ->
            <<"s", "t", "r", "i", "n", "g", "C", "o", "n", "s", "t", "a", "n", "t">>

start_xml(t) == <<"<">> \o TagName(t.kind) \o <<">">>

end_xml(t) == <<"<", "/">> \o TagName(t.kind) \o <<">">>

\* Symbol::to_xml: three symbols are escaped, the others are their to_str
Symbol_to_xml(c) ==
    CASE c = "<" -> <<"&", "l", "t", ";">>
      [] c = ">" -> <<"&", "g", "t", ";">>
      [] c = "&" -> <<"&", "a", "m", "p", ";">>
      [] OTHER -> <<c>>

DigitChar(d) == CHOOSE c \in Digits : DigitVal(c) = d

\* u16::to_string: the decimal digits, most significant first
RECURSIVE u16_to_string(_)
u16_to_string(n) ==
    IF n < 10 THEN <<DigitChar(n)>>
    ELSE u16_to_string(n \div 10) \o <<DigitChar(n % 10)>>

\* Token::to_xml
to_xml(t) ==
    CASE t.kind = "Keyword" -> t.text
      [] t.kind = "Symbol" -> Symbol_to_xml(t.text[1])
      [] t.kind = "Identifier" -> t.text
      [] t.kind = "IntConst" -> u16_to_string(t.num)
      [] t.kind = "StringConst" -> t.text

\* main.rs:48, without the line break that ends the line
xml_unit(t) == start_xml(t) \o <<" ">> \o to_xml(t) \o <<" ">> \o end_xml(t)

\* The payloads of the Identifier, IntConst and StringConst tokens serialized
IdentifierTexts == { <<"x">>, <<"_">>, <<"x", "5">>, <<"l", "e", "t", "_">> }

IntValues == {0, 5, 10, 32767, 65535}

StringPieces ==
    { <<"a">>, <<" ">>, <<"5">>, <<"<">>, <<">">>, <<"&">>, <<"&", "l", "t", ";">> }

XmlTokens ==
    { Keyword(k) : k \in Keywords } \cup { Symbol(c) : c \in SymbolChars }
        \cup { Identifier(s) : s \in IdentifierTexts }
        \cup { IntConst(n) : n \in IntValues }
        \cup { StringConst(Concat(ps)) : ps \in SeqsUpTo(StringPieces, MaxStr) }

Serialize ==
    /\ xpc = "token"
    /\ unit' = xml_unit(token)
    /\ xpc' = "serialized"
    /\ UNCHANGED <<token, cursorVars, scanVars, cleanVars>>

InitXml ==
    /\ token \in XmlTokens
    /\ unit = <<>>
    /\ xpc = "token"
    /\ ScanIdle
    /\ CleanIdle
    /\ CursorIdle

NextXml == Serialize

SpecXml == InitXml /\ [][NextXml]_vars

----------------------------------------------------------------------------
(* Properties of into_tokens *)

IsRunChar(c) == is_alphanumeric(c) \/ c = "_"

IsTerminator(c) == c = " " \/ c \in SymbolChars

\* the last index of the maximal alphanumeric/underscore run that starts at k
RECURSIVE RunEnd(_, _)
RunEnd(s, k) ==
    IF k < Len(s) /\ IsRunChar(s[k + 1]) THEN RunEnd(s, k + 1) ELSE k

\* the first index of the maximal alphanumeric/underscore run that ends at k
RECURSIVE RunStart(_, _)
RunStart(s, k) ==
    IF k > 1 /\ IsRunChar(s[k - 1]) THEN RunStart(s, k - 1) ELSE k

AllDigits(s) == s # <<>> /\ \A k \in 1..Len(s) : s[k] \in Digits

RECURSIVE StripZeros(_)
StripZeros(s) ==
    IF Len(s) > 1 /\ Head(s) = "0" THEN StripZeros(Tail(s)) ELSE s

RECURSIVE Decimal(_)
Decimal(s) ==
    IF s = <<>> THEN 0 ELSE Decimal(SubSeq(s, 1, Len(s) - 1)) * 10 + DigitVal(s[Len(s)])

\* the reference classification of a maximal run: a reserved word, else an
\* unsigned 16-bit numeral, else an identifier
RefClassify(run) ==
    IF run \in Keywords THEN Keyword(run)
    ELSE IF AllDigits(run) /\ Len(StripZeros(run)) <= 5
                           /\ Decimal(StripZeros(run)) < 65536
         THEN IntConst(Decimal(StripZeros(run)))
    ELSE Identifier(run)

\* the reference tokenization, read off the text from index k on: one token
\* per maximal run, per symbol character and per quoted string, none for a
\* space
RECURSIVE RefTokensFrom(_, _)
RefTokensFrom(s, k) ==
    IF k > Len(s) THEN <<>>
    ELSE IF s[k] \in SymbolChars THEN <<Symbol(s[k])>> \o RefTokensFrom(s, k + 1)
    ELSE IF s[k] = "\""
         THEN LET e == IndexOf(s, <<"\"">>, k + 1)
                  close == IF e = 0 THEN Len(s) + 1 ELSE e
              IN  <<StringConst(SubSeq(s, k + 1, close - 1))>>
                      \o RefTokensFrom(s, close + 1)
    ELSE IF IsRunChar(s[k])
         THEN <<RefClassify(SubSeq(s, k, RunEnd(s, k)))>>
                  \o RefTokensFrom(s, RunEnd(s, k) + 1)
    ELSE RefTokensFrom(s, k + 1)

RefTokens(s) == RefTokensFrom(s, 1)

\* every run outside a string is followed by a space or a symbol, every
\* string is terminated and preceded by a space or a symbol
RECURSIVE RunsAndStringsClosedFrom(_, _)
RunsAndStringsClosedFrom(s, k) ==
    IF k > Len(s) THEN TRUE
    ELSE IF s[k] = "\""
         THEN /\ k > 1
              /\ IsTerminator(s[k - 1])
              /\ IndexOf(s, <<"\"">>, k + 1) # 0
              /\ RunsAndStringsClosedFrom(s, IndexOf(s, <<"\"">>, k + 1) + 1)
    ELSE IF IsRunChar(s[k])
         THEN /\ RunEnd(s, k) < Len(s)
              /\ IsTerminator(s[RunEnd(s, k) + 1])
              /\ RunsAndStringsClosedFrom(s, RunEnd(s, k) + 1)
    ELSE RunsAndStringsClosedFrom(s, k + 1)

NormalizedAscii(s) ==
    /\ \A k \in 1..Len(s) : s[k] \notin NonAscii /\ s[k] \notin Whitespace \ {" "}
    /\ \A k \in 1..Len(s) - 1 : ~(s[k] = " " /\ s[k + 1] = " ")
    /\ s # <<>> => s[1] # " " /\ s[Len(s)] # " "

WellFormed(s) == NormalizedAscii(s) /\ RunsAndStringsClosedFrom(s, 1)

QuoteCount(s) == Cardinality({k \in 1..Len(s) : s[k] = "\""})

\* C2: when the input ends in an alphanumeric/underscore character (outside
\* a string), the last token into_tokens returns is the classification of
\* that final run: the pending accumulator is not dropped at end of input.
C2_TrailingRunClosed ==
    (/\ pc = "done"
     /\ chars # <<>>
     /\ IsRunChar(chars[Len(chars)])
     /\ QuoteCount(chars) = 0)
    => /\ tokens # <<>>
       /\ tokens[Len(tokens)] =
              RefClassify(SubSeq(chars, RunStart(chars, Len(chars)), Len(chars)))

\* C3: every iteration of the scan loop strictly increases the read index i,
\* whatever the character at i is.
C3_IndexStrictlyIncreases ==
    [][(pc = "scan" /\ i < Len(chars)) => i' > i]_vars

\* C4: the tokens are in source order: a token pushed earlier starts at an
\* earlier input character than one pushed later, and no input character
\* belongs to two tokens.
C4_SourceOrder ==
    \A a, b \in 1..Len(tokens) :
        a < b => /\ Min(spans[a]) < Min(spans[b])
                 /\ spans[a] \cap spans[b] = {}

\* C5: every IntConst token carries a value in [0, 32767].
C5_IntConstRange ==
    \A k \in 1..Len(tokens) :
        tokens[k].kind = "IntConst" => tokens[k].num >= 0 /\ tokens[k].num <= 32767

\* C6: on a normalized ASCII input in which every run is followed by a space
\* or a symbol and every string is terminated and preceded by a space or a
\* symbol, into_tokens returns exactly the reference tokenization.
C6_ReferenceTokenization ==
    (pc = "done" /\ WellFormed(chars)) => tokens = RefTokens(chars)

C6_Witness ==
    /\ pc = "done"
    /\ WellFormed(chars)
    /\ Len(tokens) = 3
    /\ tokens[1].kind = "Keyword"
    /\ tokens[2].kind = "Symbol"
    /\ tokens[3].kind = "StringConst"
    /\ tokens[3].text # <<>>

\* C8: a token classified as Identifier is never a reserved word and never
\* a run of decimal digits only.
C8_IdentifierNotReservedNotInteger ==
    \A k \in 1..Len(tokens) :
        tokens[k].kind = "Identifier" =>
            /\ tokens[k].text \notin Keywords
            /\ ~AllDigits(tokens[k].text)

\* C12: on a double quote at index i that has a later double quote,
\* into_tokens pushes one StringConst holding exactly the characters
\* strictly between the two quotes and resumes at the character right after
\* the closing quote, whatever the characters of the string are.
C12_StringConstResumesAfterClosingQuote ==
    [][(/\ pc = "scan"
        /\ i < Len(chars)
        /\ chars[i + 1] = "\""
        /\ IndexOf(chars, <<"\"">>, i + 2) # 0)
       => LET close == IndexOf(chars, <<"\"">>, i + 2)
          IN  /\ tokens' = Append(tokens, StringConst(SubSeq(chars, i + 2, close - 1)))
              /\ i' = close]_vars

----------------------------------------------------------------------------
(* Properties of clean_input *)

RECURSIVE NonWhitespace(_)
NonWhitespace(s) ==
    IF s = <<>> THEN <<>>
    ELSE IF Head(s) \in Whitespace THEN NonWhitespace(Tail(s))
    ELSE <<Head(s)>> \o NonWhitespace(Tail(s))

\* a is b with some characters left out
RECURSIVE IsSubsequence(_, _)
IsSubsequence(a, b) ==
    IF a = <<>> THEN TRUE
    ELSE IF b = <<>> THEN FALSE
    ELSE IF Head(a) = Head(b) THEN IsSubsequence(Tail(a), Tail(b))
    ELSE IsSubsequence(a, Tail(b))

NoDoubleSpace(s) == \A k \in 1..Len(s) - 1 : ~(s[k] = " " /\ s[k + 1] = " ")

\* what is kept of the raw text is kept in order, and a raw text without a
\* slash (so without a comment) keeps all its non-whitespace characters
TextPreserved ==
    /\ IsSubsequence(NonWhitespace(first), NonWhitespace(raw))
    /\ "/" \notin Range(raw) => NonWhitespace(first) = NonWhitespace(raw)

\* C7: clean_input is idempotent: clean_input(clean_input(x)) = clean_input(x).
C7_CleanInputIdempotent ==
    stage = "done" => text = first

UnterminatedOpener(s) ==
    LET p == IndexOf(s, <<"/", "*">>, 1)
    IN  IF /\ p # 0
           /\ IndexOf(s, <<"*", "/">>, p + 2) = 0
           /\ IndexOf(s, <<"/", "/">>, 1) = 0
        THEN p
        ELSE 0

\* C13: an unterminated block comment consumes to end of input: when the
\* raw text holds a /* (or /**) with no later */, the output of clean_input
\* is that of the text before the opener, so nothing of the opener or of
\* the text after it is left for the scanner.
C13_UnterminatedCommentDropped ==
    (round = 2 /\ UnterminatedOpener(raw) # 0)
    => first = clean_input(SubSeq(raw, 1, UnterminatedOpener(raw) - 1))

----------------------------------------------------------------------------
(* Properties of the token cursor *)

\* C1: after k calls of advance() on a cursor over T (n = Len(T)):
\* current_token_index = k, current_token is T[k] (0-based) when k < n and
\* None otherwise, next_token is T[k+1] when k+1 < n and None otherwise;
\* so has_more_tokens() holds iff k < n, and once it is false no advance()
\* makes it true again.
C1_CursorAfterAdvances ==
    /\ [](/\ current_token_index = calls
          /\ current_token = Get(self_tokens, calls)
          /\ next_token = Get(self_tokens, calls + 1)
          /\ (has_more_tokens <=> calls < Len(self_tokens)))
    /\ [][(current_token = None) => (current_token' = None)]_vars

C1_Witness ==
    /\ Len(self_tokens) >= 2
    /\ calls > Len(self_tokens)
    /\ ret.call = "advance"
    /\ ~has_more_tokens

Accessors ==
    { <<"keyword", "Keyword">>, <<"symbol", "Symbol">>,
      <<"identifier", "Identifier">>, <<"int_val", "IntConst">>,
      <<"string_val", "StringConst">> }

\* C10: a typed accessor returns the payload of the current token iff the
\* current token exists and its variant is the accessor's, and panics
\* otherwise; current_token() returns the current token iff it exists and
\* panics otherwise; none of these calls changes tokens, current_token,
\* next_token or current_token_index.
C10_AccessorsFailLoudly ==
    /\ [](/\ \A a \in Accessors :
                ret.call = a[1] =>
                    LET match == current_token # None /\ current_token[1].kind = a[2]
                    IN  /\ ret.panic <=> ~match
                        /\ match => /\ ret.kind = a[2]
                                    /\ ret.text = current_token[1].text
                                    /\ ret.num = current_token[1].num
          /\ ret.call = "current_token" =>
                /\ ret.panic <=> current_token = None
                /\ ~ret.panic => /\ ret.kind = current_token[1].kind
                                 /\ ret.text = current_token[1].text
                                 /\ ret.num = current_token[1].num)
    /\ [][ret'.call # "advance" =>
            UNCHANGED <<self_tokens, current_token, current_token_index, next_token>>]_vars

C10_Witness ==
    /\ ret.call = "int_val"
    /\ ret.panic
    /\ current_token # None
    /\ current_token[1].kind = "StringConst"
    /\ calls > 0

----------------------------------------------------------------------------
(* Properties of the serialization *)

Entities ==
    { <<<<"&", "l", "t", ";">>, "<">>, <<<<"&", "g", "t", ";">>, ">">>,
      <<<<"&", "a", "m", "p", ";">>, "&">> }

StartsWith(s, pre) == Len(s) >= Len(pre) /\ SubSeq(s, 1, Len(pre)) = pre

EndsWith(s, suf) ==
    Len(s) >= Len(suf) /\ SubSeq(s, Len(s) - Len(suf) + 1, Len(s)) = suf

\* character data of well-formed markup: no bare '<' or '>', and every '&'
\* opens one of the three entities
RECURSIVE WellFormedText(_)
WellFormedText(p) ==
    IF p = <<>> THEN TRUE
    ELSE IF Head(p) \in {"<", ">"} THEN FALSE
    ELSE IF Head(p) = "&"
         THEN \E e \in Entities :
                  StartsWith(p, e[1]) /\ WellFormedText(SubSeq(p, Len(e[1]) + 1, Len(p)))
    ELSE WellFormedText(Tail(p))

\* the entities of character data replaced by the characters they stand for
RECURSIVE Unescape(_)
Unescape(p) ==
    IF p = <<>> THEN <<>>
    ELSE IF \E e \in Entities : StartsWith(p, e[1])
         THEN LET e == CHOOSE x \in Entities : StartsWith(p, x[1])
              IN  <<e[2]>> \o Unescape(SubSeq(p, Len(e[1]) + 1, Len(p)))
    ELSE <<Head(p)>> \o Unescape(Tail(p))

Kinds == {"Keyword", "Symbol", "Identifier", "IntConst", "StringConst"}

OpenTag(kind) == <<"<">> \o TagName(kind) \o <<">", " ">>

CloseTag(kind) == <<" ", "<", "/">> \o TagName(kind) \o <<">">>

HasTag(u, kind) ==
    /\ StartsWith(u, OpenTag(kind))
    /\ EndsWith(u, CloseTag(kind))
    /\ Len(u) >= Len(OpenTag(kind)) + Len(CloseTag(kind))

Payload(u, kind) == SubSeq(u, Len(OpenTag(kind)) + 1, Len(u) - Len(CloseTag(kind)))

\* a unit is well-formed markup when it is an opening tag, a space,
\* well-formed character data, a space and the matching closing tag
WellFormedUnit(u) ==
    \E kind \in Kinds : HasTag(u, kind) /\ WellFormedText(Payload(u, kind))

\* the token a unit stands for under the tag-to-kind mapping, None if none
DecodeUnit(u) ==
    IF ~\E kind \in Kinds : HasTag(u, kind) THEN None
    ELSE LET kind == CHOOSE k \in Kinds : HasTag(u, k)
             p == Unescape(Payload(u, kind))
         IN  CASE kind = "Keyword" -> IF p \in Keywords THEN Some(Keyword(p)) ELSE None
               [] kind = "Symbol" ->
                    IF Len(p) = 1 /\ p[1] \in SymbolChars THEN Some(Symbol(p[1])) ELSE None
               [] kind = "Identifier" -> Some(Identifier(p))
               [] kind = "IntConst" ->
                    IF AllDigits(p) /\ Len(p) <= 5 THEN Some(IntConst(Decimal(p))) ELSE None
               [] kind = "StringConst" -> Some(StringConst(p))

\* C11: the unit of every token is well-formed markup whose tag names the
\* token's kind, with '<', '>' and '&' emitted as entities; decoding it gives
\* the token back; and no other token serializes to the same unit.
C11_SerializationRoundTrips ==
    xpc = "serialized" =>
        /\ HasTag(unit, token.kind)
        /\ WellFormedUnit(unit)
        /\ DecodeUnit(unit) = Some(token)
        /\ \A t \in XmlTokens : t # token => xml_unit(t) # unit

=============================================================================
